---- MODULE Spec2Model ----
(***************************************************************************)
(* State-machine model of the xr_teleop browser client:                    *)
(*   - websocket.js : the transport channel (socket, reconnect backoff,    *)
(*                    connection timeout, ping/pong, inbound dispatch)     *)
(*   - webxr.js     : the immersive-session lifecycle, the 100 ms send     *)
(*                    interval and the recording-status display state      *)
(* Every handler of the page (DOM click, promise continuation, socket      *)
(* event, timer) is one action; handlers run to completion.  The browser   *)
(* (WebSocket objects, the XR system, the clock) is the environment.       *)
(* Timers are untimed: a pending timer may fire at any moment; the delay   *)
(* a reconnect was armed with is observed when it is scheduled.            *)
(***************************************************************************)
EXTENDS Integers, Sequences, FiniteSets, TLC

(***************************************************************************)
(* Program constants                                                       *)
(***************************************************************************)
MAX_RECONNECT_ATTEMPTS == 5
RECONNECT_DELAY == 3000

(***************************************************************************)
(* Bounds of the model                                                     *)
(***************************************************************************)
\* WebSocket objects alive at once (the current one and replaced ones whose
\* close event is still to come)
MaxLiveSockets == 2
\* reconnect timers pending at once
MaxTimers == 1
\* reference-space requests of ended sessions pending at once
MaxStale == 1
\* largest value of the wall clock (Date.now())
MaxTime == 3
\* largest recording_count carried by an inbound recording_status message
MaxCount == 1
\* largest magnitude of a raw pose component a frame reports, in units of half
\* of 0.0001
MaxRaw == 2
\* connected input sources of one hand besides the one its controller
\* variable refers to
MaxUntracked == 1

VARIABLES
    \* ---- websocket.js module state ----
    socket,                \* index into sockets of the current socket, 0 = null
    reconnectAttempts,
    manuallyDisconnected,
    \* ---- browser objects created by websocket.js ----
    sockets,               \* the WebSocket objects that can still raise an event or
                           \* be read, oldest first; the last one is the current one
    reconnectTimers,       \* number of pending setTimeout(setupWebSocket, delay); the
                           \* delay each was armed with is observed in scheduled
    \* ---- webxr.js module state ----
    xrSession,             \* NoSession or [mode]
    xrReferenceSpace,      \* "null", or the space of the "current" session or of
                           \* a "stale" (ended) one
    usePassthrough,
    controllerSendInterval,\* "null", or armed for the "current" session or by the
                           \* reference space of a "stale" one
    recordingActive,
    recordingCount,
    recordingStartTime,    \* 0 = null
    \* ---- controllers.js module state ----
    leftController,        \* "null", or the input source of the "current" session
    rightController,       \* or of a "stale" (ended) one
    controllerData,        \* [left, right]: the snapshot stored for each hand
    untracked,             \* [left, right]: how many connected input sources of
                           \* the hand neither controller variable refers to
    \* ---- browser / device environment seen by webxr.js ----
    browser,               \* "desktop", "quest" (Quest user agent), "questOculus"
                           \* (Quest user agent and window.OculusXRSession)
    arSupport,             \* what checkSessionSupport learned about 'immersive-ar':
                           \* "pending", "supported", "unsupported" or "error"
    xrPending,             \* "none" or stage of the one pending requestSession promise
    refPending,            \* the requestReferenceSpace promises: [current, stale]
                           \* pending, and whether the one of the active session
                           \* was rejected (failed)
    status,                \* text of the status element (utils.js updateStatus)
    now,                   \* Date.now()
    \* ---- observation of the last handler ----
    lastOp,                \* the handler that ran last, see Op
    sent,                  \* messages handed to WebSocket.send by the last handler
    created,               \* TRUE iff the last handler constructed a WebSocket
    ctorThrew,             \* TRUE iff `new WebSocket` threw in the last handler
    scheduled,             \* delays of the reconnects the last handler scheduled
    xrCalls,               \* requestSession calls issued by the last handler
    exception,             \* TRUE iff the last handler ended in an uncaught exception
    lastFrame,             \* what the frame reported for each hand if the last
                           \* handler was a frame callback that sampled it
    failedAttempts,        \* sockets closed without ever opening (and constructor
                           \* failures) since the last open or reset, counted up to
                           \* MAX_RECONNECT_ATTEMPTS
    giveUpReports          \* calls of setupWebSocket that showed the give-up text
                           \* since the attempt counter was last set to 0, counted
                           \* up to 2

wsVars == <<socket, reconnectAttempts, manuallyDisconnected, sockets, reconnectTimers>>
xrVars == <<xrSession, xrReferenceSpace, usePassthrough, controllerSendInterval, browser,
            arSupport,
            xrPending, refPending>>
recVars == <<recordingActive, recordingCount, recordingStartTime>>
ctlVars == <<leftController, rightController, controllerData, untracked>>
obsVars == <<lastOp, sent, created, ctorThrew, scheduled, xrCalls, exception, lastFrame,
             failedAttempts, giveUpReports>>
vars == <<wsVars, xrVars, recVars, ctlVars, status, now, obsVars>>

Hands == {"left", "right"}

NoSession == [mode |-> "none"]
Modes == {"immersive-ar", "immersive-vr"}
ReadyStates == {"CONNECTING", "OPEN", "CLOSING", "CLOSED"}

\* the record kept in lastOp: the handler, whether the socket whose event it
\* handles is the "current" one or a "stale" (replaced) one ("none" if the
\* handler is no socket event) and the inbound message it handles
NoMsg == [kind |-> "none", type |-> "none", recording_active |-> "undefined",
          recording_count |-> -1]
\* what a device reports for one hand in one frame: the grip pose (if tracked)
\* and the gamepad (if the input source has one)
NoPose == [has |-> FALSE, position |-> <<>>, orientation |-> <<>>]
NoGamepad == [has |-> FALSE, buttons |-> <<>>, axes |-> <<>>]
\* lastFrame for a hand the last handler did not sample
NoReport == [pose |-> NoPose, gamepad |-> NoGamepad]
NoFrame == [left |-> NoReport, right |-> NoReport]
Op(name, s, m) == [name |-> name, sock |-> s, msg |-> m]
Which(s) == IF s = socket THEN "current" ELSE "stale"

\* one more failed attempt
OneMoreFailed == IF failedAttempts < MAX_RECONNECT_ATTEMPTS THEN failedAttempts + 1
                 ELSE failedAttempts

\* one more give-up report; two are enough to tell once from more than once
OneMoreReport == IF giveUpReports < 2 THEN giveUpReports + 1 ELSE giveUpReports

(***************************************************************************)
(* Browser WebSocket object                                                *)
(***************************************************************************)
\* a freshly constructed WebSocket with the connection timeout of
\* setupWebSocket armed for it; opened and first record whether it has
\* opened and the type of the first message sent on it
NewSocket == [readyState |-> "CONNECTING", timeout |-> TRUE, opened |-> FALSE, first |-> "none"]

\* a WebSocket after its close event: its connection timeout is cleared by
\* onclose, and what happened on it is no longer recorded
ClosedSocket == [readyState |-> "CLOSED", timeout |-> FALSE, opened |-> FALSE, first |-> "none"]

\* WebSocket.close(): a connecting or open socket starts closing, the close
\* event follows later; on a closing or closed socket the call does nothing
CloseCall(rs) == IF rs \in {"CONNECTING", "OPEN"} THEN "CLOSING" ELSE rs

\* WebSocket.send(): throws InvalidStateError while connecting, transmits
\* while open, discards silently while closing or closed
SendCall(rs) == CASE rs = "CONNECTING" -> "throw"
                  [] rs = "OPEN" -> "sent"
                  [] OTHER -> "discard"

\* a close() call that leaves the socket as it is
CloseSocketSkipped(socks, i) == socks

\* socks with close() called on socket i
CloseSocket(socks, i) == [socks EXCEPT ![i].readyState = CloseCall(@)]

\* A closed socket that is no longer the current one raises no event and is
\* read by nobody: it is dropped from sockets.  The current socket is kept
\* even when closed, because setupWebSocket reads its readyState.
NotClosed(x) == x.readyState # "CLOSED"
Collect(socks) ==
    IF socks = <<>> THEN socks
    ELSE Append(SelectSeq(SubSeq(socks, 1, Len(socks) - 1), NotClosed), socks[Len(socks)])

(***************************************************************************)
(* websocket.js                                                            *)
(***************************************************************************)
\* result of a send attempt: the sockets afterwards, what was written and
\* whether WebSocket.send threw
SendOutcome(socks, sk, msg) ==
    LET r == SendCall(socks[sk].readyState) IN
    IF r = "sent"
    THEN [sockets |-> [socks EXCEPT ![sk].first = IF @ = "none" THEN msg.type ELSE @],
          sent |-> <<[sock |-> sk, msg |-> msg]>>, threw |-> FALSE]
    ELSE [sockets |-> socks, sent |-> <<>>, threw |-> (r = "throw")]

NoSend(socks) == [sockets |-> socks, sent |-> <<>>, threw |-> FALSE]

\* sendMessage(data)
sendMessage(socks, sk, msg) ==
    IF sk # 0 /\ socks[sk].readyState = "OPEN"
    THEN SendOutcome(socks, sk, msg)
    ELSE NoSend(socks)

\* sendControllerData without the readyState test
sendControllerDataUnguarded(socks, sk, data) ==
    IF sk # 0
    THEN SendOutcome(socks, sk, [type |-> "telemetry", hands |-> data, timestamp |-> now])
    ELSE NoSend(socks)

\* sendControllerData(data): the timestamp is added at send time
sendControllerData(socks, sk, data) ==
    IF sk # 0 /\ socks[sk].readyState = "OPEN"
    THEN SendOutcome(socks, sk, [type |-> "telemetry", hands |-> data, timestamp |-> now])
    ELSE NoSend(socks)

\* sendPing that sends nothing
sendPingSkipped(socks, sk) == NoSend(socks)

\* sendPing()
sendPing(socks, sk) == sendMessage(socks, sk, [type |-> "ping", timestamp |-> now])

\* a backoff that does not grow
ConstantDelay(att) == RECONNECT_DELAY

\* delay of the reconnect scheduled after the attempt counter reached att
BackoffDelay(att) == RECONNECT_DELAY * att

\* setupWebSocket without its first guard
ManualGuardIgnored == FALSE

\* the first guard of setupWebSocket
ManualGuard == manuallyDisconnected

\* the second guard with > in place of >=
CeilingExceeded(att) == att > MAX_RECONNECT_ATTEMPTS

\* the second guard of setupWebSocket
CeilingReached(att) == att >= MAX_RECONNECT_ATTEMPTS

\* setupWebSocket(), run on the transport state (sk, socks, att, timers) with
\* status text st; ctorOk says whether `new WebSocket` returns or throws
setupWebSocket(sk, socks, att, timers, st, ctorOk) ==
    IF ManualGuard
    THEN [socket |-> sk, sockets |-> socks, attempts |-> att, timers |-> timers,
          status |-> st, scheduled |-> <<>>, created |-> FALSE, threw |-> FALSE]
    ELSE IF CeilingReached(att)
    THEN [socket |-> sk, sockets |-> socks, attempts |-> att, timers |-> timers,
          status |-> "WebSocket connection failed - reload page to try again",
          scheduled |-> <<>>, created |-> FALSE, threw |-> FALSE]
    ELSE LET closed == IF sk # 0 /\ socks[sk].readyState # "CLOSED"
                       THEN CloseSocket(socks, sk) ELSE socks
         IN IF ctorOk
            THEN [socket |-> Len(Collect(Append(closed, NewSocket))),
                  sockets |-> Collect(Append(closed, NewSocket)),
                  attempts |-> att, timers |-> timers,
                  status |-> "VR session active | Connecting to WebSocket",
                  scheduled |-> <<>>, created |-> TRUE, threw |-> FALSE]
            ELSE \* catch (error)
                 IF ~manuallyDisconnected
                 THEN [socket |-> sk, sockets |-> closed, attempts |-> att + 1,
                       timers |-> timers + 1,
                       scheduled |-> <<BackoffDelay(att + 1)>>,
                       status |-> "Error setting up WebSocket",
                       created |-> FALSE, threw |-> TRUE]
                 ELSE [socket |-> sk, sockets |-> closed, attempts |-> att, timers |-> timers,
                       status |-> "Error setting up WebSocket",
                       scheduled |-> <<>>, created |-> FALSE, threw |-> TRUE]

\* whether a call of setupWebSocket shows the give-up text
GivesUp == ~ManualGuard /\ CeilingReached(reconnectAttempts)

\* whether a call of setupWebSocket would reach `new WebSocket`
ReachesCtor == ~ManualGuard /\ ~CeilingReached(reconnectAttempts)

\* the constructor outcomes to explore for a call of setupWebSocket
CtorOutcomes == IF ReachesCtor THEN BOOLEAN ELSE {TRUE}

\* the transport state after a call of setupWebSocket that returned r
SetupApplied(r) ==
    /\ socket' = r.socket
    /\ sockets' = r.sockets
    /\ reconnectAttempts' = r.attempts
    /\ reconnectTimers' = r.timers
    /\ status' = r.status
    /\ created' = r.created
    /\ ctorThrew' = r.threw
    /\ scheduled' = r.scheduled
    /\ failedAttempts' = IF r.threw THEN OneMoreFailed ELSE failedAttempts
    /\ giveUpReports' = IF GivesUp THEN OneMoreReport ELSE giveUpReports
    /\ UNCHANGED manuallyDisconnected

\* a pending setTimeout(setupWebSocket, d) fires
ReconnectTimerFires ==
    \E ok \in CtorOutcomes :
        /\ reconnectTimers > 0
        /\ SetupApplied(setupWebSocket(socket, sockets, reconnectAttempts,
                                       reconnectTimers - 1, status, ok))
        /\ lastOp' = Op("reconnectTimer", "none", NoMsg)
        /\ sent' = <<>>
        /\ xrCalls' = <<>>
        /\ lastFrame' = NoFrame
        /\ exception' = FALSE
        /\ UNCHANGED <<xrVars, recVars, ctlVars, now>>

\* the timeout condition with === in place of !==
TimeoutClosesOpen(socks, sk) == sk # 0 /\ socks[sk].readyState = "OPEN"

\* the condition of the connection-timeout handler
TimeoutCloses(socks, sk) == sk # 0 /\ socks[sk].readyState # "OPEN"

\* the connection timeout armed for socket s fires: the handler looks at the
\* module variable socket, not at s
ConnectionTimeoutFires ==
    \E s \in 1..Len(sockets) :
        /\ sockets[s].timeout
        /\ LET fired == [sockets EXCEPT ![s].timeout = FALSE] IN
           sockets' = IF TimeoutCloses(fired, socket)
                      THEN CloseSocket(fired, socket) ELSE fired
        /\ lastOp' = Op("connectionTimeout", Which(s), NoMsg)
        /\ sent' = <<>>
        /\ created' = FALSE
        /\ ctorThrew' = FALSE
        /\ scheduled' = <<>>
        /\ xrCalls' = <<>>
        /\ lastFrame' = NoFrame
        /\ exception' = FALSE
        /\ UNCHANGED <<socket, reconnectAttempts, manuallyDisconnected, reconnectTimers,
                       xrVars, recVars, ctlVars, status, now, failedAttempts, giveUpReports>>

\* socket.onopen of socket s
SocketOpen ==
    \E s \in 1..Len(sockets) :
        /\ sockets[s].readyState = "CONNECTING"
        /\ LET opened == [sockets EXCEPT ![s].readyState = "OPEN", ![s].opened = TRUE,
                                         ![s].timeout = FALSE]
               r == sendPing(opened, socket)
           IN /\ sockets' = r.sockets
              /\ sent' = r.sent
              /\ exception' = r.threw
        /\ status' = "VR session active | WebSocket connected"
        /\ reconnectAttempts' = 0
        /\ failedAttempts' = 0
        /\ giveUpReports' = 0
        /\ lastOp' = Op("onopen", Which(s), NoMsg)
        /\ created' = FALSE
        /\ ctorThrew' = FALSE
        /\ scheduled' = <<>>
        /\ xrCalls' = <<>>
        /\ lastFrame' = NoFrame
        /\ UNCHANGED <<socket, manuallyDisconnected, reconnectTimers, xrVars, recVars, ctlVars, now>>

\* socket.onclose of socket s (an error event, if any, runs socket.onerror just
\* before it in the same task; onerror only writes the status text, which
\* onclose overwrites)
SocketCloseOf(s) ==
    /\ sockets[s].readyState # "CLOSED"
    /\ sockets' = Collect([sockets EXCEPT ![s] = ClosedSocket])
    /\ socket' = Len(sockets')
    /\ status' = "VR session active | WebSocket disconnected"
    /\ IF ~manuallyDisconnected
       THEN /\ reconnectAttempts' = reconnectAttempts + 1
            /\ reconnectTimers' = reconnectTimers + 1
            /\ scheduled' = <<BackoffDelay(reconnectAttempts + 1)>>
       ELSE /\ UNCHANGED <<reconnectAttempts, reconnectTimers>>
            /\ scheduled' = <<>>
    /\ failedAttempts' = IF sockets[s].opened THEN failedAttempts ELSE OneMoreFailed
    /\ UNCHANGED giveUpReports
    /\ lastOp' = Op("onclose", Which(s), NoMsg)
    /\ sent' = <<>>
    /\ created' = FALSE
    /\ ctorThrew' = FALSE
    /\ xrCalls' = <<>>
    /\ lastFrame' = NoFrame
    /\ exception' = FALSE
    /\ UNCHANGED <<manuallyDisconnected, xrVars, recVars, ctlVars, now>>

\* the close event of any socket that is not closed yet
SocketClose == \E s \in 1..Len(sockets) : SocketCloseOf(s)

\* the close event of a socket on which close() was called; the server drops
\* no connection
LocalClose ==
    \E s \in 1..Len(sockets) : sockets[s].readyState = "CLOSING" /\ SocketCloseOf(s)

(***************************************************************************)
(* webxr.js: recording status                                              *)
(***************************************************************************)
\* elements.recordingStatus is created by initWebXR before any handler below
\* can run
HasRecordingElement == TRUE

\* updateRecordingStatus that keeps the start time when recording stops
updateRecordingStatusKeepsStart(active, cnt, start, isRecording, count) ==
    IF isRecording
    THEN [active |-> TRUE, count |-> count,
          start |-> IF start = 0 THEN now ELSE start]
    ELSE [active |-> FALSE, count |-> cnt, start |-> start]

\* updateRecordingStatus that restarts the clock on every active update
updateRecordingStatusRestart(active, cnt, start, isRecording, count) ==
    IF isRecording
    THEN [active |-> TRUE, count |-> count, start |-> now]
    ELSE [active |-> FALSE, count |-> cnt, start |-> 0]

\* updateRecordingStatus(isRecording, count) on the display state
\* (active, cnt, start); start = 0 stands for null
updateRecordingStatus(active, cnt, start, isRecording, count) ==
    IF ~HasRecordingElement
    THEN [active |-> active, count |-> cnt, start |-> start]
    ELSE IF isRecording
         THEN [active |-> TRUE, count |-> count,
               start |-> IF start = 0 THEN now ELSE start]
         ELSE [active |-> FALSE, count |-> cnt, start |-> 0]

RecordingApplied(r) ==
    /\ recordingActive' = r.active
    /\ recordingCount' = r.count
    /\ recordingStartTime' = r.start

(***************************************************************************)
(* websocket.js: inbound dispatch                                          *)
(***************************************************************************)
\* payloads the server may send: text that JSON.parse rejects (or that parses
\* to null), and objects with a type; recording_active is "true", "false" or
\* "undefined" (absent), recording_count is a number or -1 (absent)
InboundMessages ==
    {[kind |-> "malformed", type |-> "none", recording_active |-> "undefined",
      recording_count |-> -1]}
    \cup {[kind |-> "json", type |-> t, recording_active |-> "undefined",
           recording_count |-> -1] : t \in {"ping", "pong", "unknown"}}
    \cup {[kind |-> "json", type |-> "recording_status", recording_active |-> a,
           recording_count |-> c] : a \in {"true", "false", "undefined"},
                                    c \in (-1)..MaxCount}

\* message.recording_count || 0
CountOrZero(c) == IF c = -1 THEN 0 ELSE c

\* a dispatch that answers pong as it answers ping
ReplyToPong(m) ==
    IF m.kind = "json" /\ m.type \in {"ping", "pong"}
    THEN sendMessage(sockets, socket, [type |-> "pong", timestamp |-> now])
    ELSE NoSend(sockets)

\* the reply of socket.onmessage to message m, as a call of sendMessage or none;
\* an exception inside the handler is caught, so nothing propagates
Reply(m) ==
    IF m.kind = "json" /\ m.type = "ping"
    THEN LET r == sendMessage(sockets, socket,
                              [type |-> "pong", timestamp |-> now])
         IN IF r.threw THEN NoSend(sockets) ELSE r
    ELSE NoSend(sockets)

\* a malformed payload clearing the recording display state
ForwardedResetsOnMalformed(m) ==
    IF m.kind = "json" /\ m.type = "recording_status" /\ m.recording_active # "undefined"
    THEN updateRecordingStatus(recordingActive, recordingCount, recordingStartTime,
                               m.recording_active = "true", CountOrZero(m.recording_count))
    ELSE IF m.kind = "malformed"
    THEN [active |-> FALSE, count |-> 0, start |-> 0]
    ELSE [active |-> recordingActive, count |-> recordingCount, start |-> recordingStartTime]

\* the recording state after socket.onmessage handled m
Forwarded(m) ==
    IF m.kind = "json" /\ m.type = "recording_status" /\ m.recording_active # "undefined"
    THEN updateRecordingStatus(recordingActive, recordingCount, recordingStartTime,
                               m.recording_active = "true", CountOrZero(m.recording_count))
    ELSE [active |-> recordingActive, count |-> recordingCount, start |-> recordingStartTime]

\* socket.onmessage without its try/catch: JSON.parse throws on a malformed payload
EscapesWithoutTry(m) == m.kind = "malformed"

\* whether an exception raised while socket.onmessage handles m leaves the
\* handler: the whole body is inside try/catch
EscapesHandler(m) == FALSE

\* socket.onmessage of socket s: the browser delivers messages to open sockets only
SocketMessage ==
    \E s \in 1..Len(sockets), m \in InboundMessages :
        /\ sockets[s].readyState = "OPEN"
        /\ LET r == Reply(m) IN
              /\ sockets' = r.sockets
              /\ sent' = r.sent
        /\ RecordingApplied(Forwarded(m))
        /\ lastOp' = Op("onmessage", Which(s), m)
        /\ created' = FALSE
        /\ ctorThrew' = FALSE
        /\ scheduled' = <<>>
        /\ xrCalls' = <<>>
        /\ lastFrame' = NoFrame
        /\ exception' = EscapesHandler(m)
        /\ UNCHANGED <<socket, reconnectAttempts, manuallyDisconnected, reconnectTimers,
                       xrVars, ctlVars, status, now, failedAttempts, giveUpReports>>

\* getControllerData()
getControllerData == controllerData

\* a tick of the 100 ms interval armed in onSessionStarted
SendTick ==
    /\ controllerSendInterval # "null"
    /\ LET r == sendControllerData(sockets, socket, getControllerData) IN
          /\ sockets' = r.sockets
          /\ sent' = r.sent
          /\ exception' = r.threw
    /\ lastOp' = Op("sendTick", "none", NoMsg)
    /\ created' = FALSE
    /\ ctorThrew' = FALSE
    /\ scheduled' = <<>>
    /\ xrCalls' = <<>>
    /\ lastFrame' = NoFrame
    /\ UNCHANGED <<socket, reconnectAttempts, manuallyDisconnected, reconnectTimers,
                   xrVars, recVars, ctlVars, status, now, failedAttempts, giveUpReports>>

\* disconnectWebSocket()
DisconnectWebSocket ==
    /\ manuallyDisconnected' = TRUE
    /\ sockets' = IF socket # 0 THEN CloseSocket(sockets, socket) ELSE sockets
    /\ lastOp' = Op("disconnect", "none", NoMsg)
    /\ sent' = <<>>
    /\ created' = FALSE
    /\ ctorThrew' = FALSE
    /\ scheduled' = <<>>
    /\ xrCalls' = <<>>
    /\ lastFrame' = NoFrame
    /\ exception' = FALSE
    /\ UNCHANGED <<socket, reconnectAttempts, reconnectTimers, xrVars,
                   recVars, ctlVars, status, now, failedAttempts, giveUpReports>>

\* resetWebSocketState that leaves the attempt counter as it is
ResetKeepsAttempts ==
    /\ manuallyDisconnected' = FALSE
    /\ lastOp' = Op("reset", "none", NoMsg)
    /\ sent' = <<>>
    /\ created' = FALSE
    /\ ctorThrew' = FALSE
    /\ scheduled' = <<>>
    /\ xrCalls' = <<>>
    /\ lastFrame' = NoFrame
    /\ exception' = FALSE
    /\ UNCHANGED <<socket, sockets, reconnectAttempts, failedAttempts, giveUpReports, reconnectTimers, xrVars,
                   recVars, ctlVars, status, now>>

\* resetWebSocketState()
ResetWebSocketState ==
    /\ manuallyDisconnected' = FALSE
    /\ reconnectAttempts' = 0
    /\ failedAttempts' = 0
    /\ giveUpReports' = 0
    /\ lastOp' = Op("reset", "none", NoMsg)
    /\ sent' = <<>>
    /\ created' = FALSE
    /\ ctorThrew' = FALSE
    /\ scheduled' = <<>>
    /\ xrCalls' = <<>>
    /\ lastFrame' = NoFrame
    /\ exception' = FALSE
    /\ UNCHANGED <<socket, sockets, reconnectTimers, xrVars, recVars, ctlVars, status, now>>

(***************************************************************************)
(* webxr.js: session lifecycle                                             *)
(***************************************************************************)
\* The XR system allows one immersive session and one pending immersive
\* request: requestSession called while either exists returns a promise that
\* is already rejected, so its catch continuation runs before any other
\* handler.  Otherwise the request stays pending until the device grants or
\* rejects it.
XRBusy == xrPending # "none" \/ xrSession # NoSession

\* startVRFallback(): navigator.xr.requestSession('immersive-vr', ...)
startVRFallback(busy, calls, st) ==
    IF busy
    THEN [pending |-> xrPending, calls |-> Append(calls, "immersive-vr"),
          status |-> "Error starting VR"]
    ELSE [pending |-> "vr", calls |-> Append(calls, "immersive-vr"), status |-> st]

\* tryStandardPassthrough(): navigator.xr.requestSession('immersive-ar', ...)
tryStandardPassthrough(busy, calls, st) ==
    IF busy
    THEN startVRFallback(busy, Append(calls, "immersive-ar"), st)
    ELSE [pending |-> "standard", calls |-> Append(calls, "immersive-ar"), status |-> st]

\* requestQuestPassthrough(): window.OculusXRSession.requestSession if that
\* object exists; throws says whether the call throws synchronously
requestQuestPassthrough(busy, calls, st, throws) ==
    IF browser = "questOculus"
    THEN IF throws \/ busy
         THEN tryStandardPassthrough(busy, Append(calls, "oculus-immersive-ar"), st)
         ELSE [pending |-> "quest", calls |-> Append(calls, "oculus-immersive-ar"),
               status |-> st]
    ELSE tryStandardPassthrough(busy, calls, st)

\* startXRSession that goes straight to the plain request
startXRSessionPlainFirst(busy, throws) == startVRFallback(busy, <<>>, status)

\* startXRSession that ignores usePassthrough
startXRSessionAlwaysPassthrough(busy, throws) ==
    IF browser \in {"quest", "questOculus"}
    THEN requestQuestPassthrough(busy, <<>>, status, throws)
    ELSE tryStandardPassthrough(busy, <<>>, status)

\* startXRSession()
startXRSession(busy, throws) ==
    IF usePassthrough
    THEN IF browser \in {"quest", "questOculus"}
         THEN requestQuestPassthrough(busy, <<>>, status, throws)
         ELSE tryStandardPassthrough(busy, <<>>, status)
    ELSE startVRFallback(busy, <<>>, status)

\* the synchronous-throw outcomes to explore for a call that may reach
\* window.OculusXRSession.requestSession
OculusThrows == IF usePassthrough /\ browser = "questOculus" THEN BOOLEAN ELSE {FALSE}

\* what a handler that touches neither a socket nor a timer leaves observed
NoTransportEffect ==
    /\ sent' = <<>>
    /\ created' = FALSE
    /\ ctorThrew' = FALSE
    /\ scheduled' = <<>>
    /\ exception' = FALSE
    /\ UNCHANGED <<wsVars, failedAttempts, giveUpReports>>

\* click on the passthrough toggle
PassthroughToggle ==
    /\ usePassthrough' = ~usePassthrough
    /\ lastOp' = Op("toggle", "none", NoMsg)
    /\ xrCalls' = <<>>
    /\ lastFrame' = NoFrame
    /\ NoTransportEffect
    /\ UNCHANGED <<xrSession, xrReferenceSpace, controllerSendInterval, browser, arSupport,
                   xrPending, refPending, recVars, ctlVars, status, now>>

\* checkSessionSupport: 'immersive-vr' is supported and the button enabled;
\* the nested isSessionSupported('immersive-ar') settles.  The handlers write
\* the button text and the status text and keep the answer nowhere else.
ArSupportReported ==
    \E answer \in {"supported", "unsupported", "error"} :
        /\ arSupport = "pending"
        /\ arSupport' = answer
        /\ status' = CASE answer = "supported" -> "Mixed Reality ready - press button to begin"
                       [] answer = "unsupported" -> "VR ready - press Enter VR to begin"
                       [] OTHER -> status
        /\ lastOp' = Op("arSupportReported", "none", NoMsg)
        /\ xrCalls' = <<>>
        /\ lastFrame' = NoFrame
        /\ NoTransportEffect
        /\ UNCHANGED <<xrSession, xrReferenceSpace, usePassthrough, controllerSendInterval,
                       browser, xrPending, refPending, recVars, ctlVars, now>>

\* click on the VR button
VrButtonClick ==
    \E throws \in OculusThrows :
        LET r == startXRSession(XRBusy, throws) IN
        /\ xrPending' = r.pending
        /\ xrCalls' = r.calls
        /\ lastFrame' = NoFrame
        /\ status' = r.status
        /\ lastOp' = Op("click", "none", NoMsg)
        /\ NoTransportEffect
        /\ UNCHANGED <<xrSession, xrReferenceSpace, usePassthrough,
                       controllerSendInterval, browser, arSupport, refPending, recVars, ctlVars, now>>

\* the pending session request is rejected: the catch continuation of its stage
SessionRejected ==
    /\ xrPending # "none"
    /\ LET r == CASE xrPending = "quest" -> tryStandardPassthrough(FALSE, <<>>, status)
                  [] xrPending = "standard" -> startVRFallback(FALSE, <<>>, status)
                  [] OTHER -> [pending |-> "none", calls |-> <<>>,
                               status |-> "Error starting VR"]
       IN /\ xrPending' = r.pending
          /\ xrCalls' = r.calls
          /\ lastFrame' = NoFrame
          /\ status' = r.status
    /\ lastOp' = Op("sessionRejected", "none", NoMsg)
    /\ NoTransportEffect
    /\ UNCHANGED <<xrSession, xrReferenceSpace, usePassthrough,
                   controllerSendInterval, browser, arSupport, refPending, recVars, ctlVars, now>>

\* the mode of the session a pending request of the given stage yields
StageMode(stage) == IF stage = "vr" THEN "immersive-vr" ELSE "immersive-ar"

\* the pending session request is granted: onSessionStarted(session)
SessionGranted ==
    \E ok \in CtorOutcomes :
        /\ xrPending # "none"
        /\ LET mode == StageMode(xrPending)
               st == IF mode = "immersive-ar" THEN "Passthrough session active"
                     ELSE "VR session active"
           IN /\ xrSession' = [mode |-> mode]
              /\ RecordingApplied(updateRecordingStatus(recordingActive, recordingCount,
                                                        recordingStartTime, FALSE, 0))
              /\ SetupApplied(setupWebSocket(socket, sockets, reconnectAttempts,
                                             reconnectTimers, st, ok))
        /\ refPending' = [refPending EXCEPT !.current = TRUE, !.failed = FALSE]
        /\ xrPending' = "none"
        /\ lastOp' = Op("sessionStarted", "none", NoMsg)
        /\ sent' = <<>>
        /\ xrCalls' = <<>>
        /\ lastFrame' = NoFrame
        /\ exception' = FALSE
        /\ UNCHANGED <<xrReferenceSpace, usePassthrough, controllerSendInterval, browser, arSupport, ctlVars, now>>

\* an object of the session that ends is from now on that of a stale session
Ended(x) == IF x = "current" THEN "stale" ELSE x

\* onSessionEnded that also disconnects the socket
SessionEndedDisconnects ==
    /\ xrSession # NoSession
    /\ xrSession' = NoSession
    /\ status' = "XR session ended"
    /\ controllerSendInterval' = "null"
    /\ xrReferenceSpace' = Ended(xrReferenceSpace)
    /\ refPending' = [current |-> FALSE,
                      stale |-> refPending.stale + (IF refPending.current THEN 1 ELSE 0),
                      failed |-> FALSE]
    /\ leftController' = Ended(leftController)
    /\ rightController' = Ended(rightController)
    /\ untracked' = [hand \in Hands |-> 0]
    /\ lastOp' = Op("sessionEnded", "none", NoMsg)
    /\ xrCalls' = <<>>
    /\ lastFrame' = NoFrame
    /\ manuallyDisconnected' = TRUE
    /\ sockets' = IF socket # 0 THEN CloseSocket(sockets, socket) ELSE sockets
    /\ sent' = <<>>
    /\ created' = FALSE
    /\ ctorThrew' = FALSE
    /\ scheduled' = <<>>
    /\ exception' = FALSE
    /\ UNCHANGED <<socket, reconnectAttempts, reconnectTimers, failedAttempts, giveUpReports>>
    /\ UNCHANGED <<usePassthrough, browser, arSupport, xrPending, recVars, controllerData, now>>

\* the 'end' event of the active session: onSessionEnded().  What belonged to
\* the session that ends (its reference space, its pending reference-space
\* request, its input sources) stays where it is stored.
SessionEnded ==
    /\ xrSession # NoSession
    /\ xrSession' = NoSession
    /\ status' = "XR session ended"
    /\ controllerSendInterval' = "null"
    /\ xrReferenceSpace' = Ended(xrReferenceSpace)
    /\ refPending' = [current |-> FALSE,
                      stale |-> refPending.stale + (IF refPending.current THEN 1 ELSE 0),
                      failed |-> FALSE]
    /\ leftController' = Ended(leftController)
    /\ rightController' = Ended(rightController)
    /\ untracked' = [hand \in Hands |-> 0]
    /\ lastOp' = Op("sessionEnded", "none", NoMsg)
    /\ xrCalls' = <<>>
    /\ lastFrame' = NoFrame
    /\ NoTransportEffect
    /\ UNCHANGED <<usePassthrough, browser, arSupport, xrPending, recVars, controllerData, now>>

\* the sessions that have a reference-space request pending
RefPendingOf == {t \in {"current", "stale"} :
                    IF t = "current" THEN refPending.current ELSE refPending.stale > 0}

\* refPending with one request of a session of kind t settled
RefSettled(t) == IF t = "current" THEN [refPending EXCEPT !.current = FALSE]
                 ELSE [refPending EXCEPT !.stale = @ - 1]

\* session.requestReferenceSpace('local') resolves
RefSpaceAcquired ==
    \E t \in RefPendingOf :
        /\ refPending' = RefSettled(t)
        /\ xrReferenceSpace' = t
        /\ controllerSendInterval' = t
        /\ lastOp' = Op("refSpaceAcquired", "none", NoMsg)
        /\ xrCalls' = <<>>
        /\ lastFrame' = NoFrame
        /\ NoTransportEffect
        /\ UNCHANGED <<xrSession, usePassthrough, browser, arSupport, xrPending, recVars, ctlVars, status, now>>

\* session.requestReferenceSpace('local') rejects
RefSpaceFailed ==
    \E t \in RefPendingOf :
        /\ refPending' = [RefSettled(t) EXCEPT !.failed = @ \/ t = "current"]
        /\ lastOp' = Op("refSpaceFailed", "none", NoMsg)
        /\ xrCalls' = <<>>
        /\ lastFrame' = NoFrame
        /\ NoTransportEffect
        /\ UNCHANGED <<xrSession, xrReferenceSpace, usePassthrough,
                       controllerSendInterval, browser, arSupport, xrPending, recVars, ctlVars, status, now>>

(***************************************************************************)
(* controllers.js and the frame callback of webxr.js                       *)
(***************************************************************************)
\* what an inputsourceschange event reports about one input source of a hand:
\* it was added; the source the controller variable refers to was removed; or
\* another source was removed (one of the same hand that the variable does not
\* refer to, or one that is of neither hand)
SourceChanges == {"added", "removed", "removedOther"}

\* the controller variable of the hand after the event: an added source
\* replaces the reference, and only the removal of the stored source clears it
TrackedAfter(old, change) ==
    IF change = "added" THEN "current"
    ELSE IF change = "removed" THEN "null"
    ELSE old

\* the connected sources of the hand that its controller variable does not
\* refer to, n before the event: a source added over a connected one leaves
\* that one connected
UntrackedAfter(old, n, change) ==
    IF change = "added" /\ old = "current" THEN n + 1
    ELSE IF change = "removedOther" /\ n > 0 THEN n - 1
    ELSE n

\* onInputSourcesChange that stops the send timer when a source is removed
InputSourcesChangeStopsTimer ==
    \E hand \in Hands, change \in SourceChanges :
        /\ xrSession # NoSession
        /\ LET old == IF hand = "left" THEN leftController ELSE rightController
               new == TrackedAfter(old, change)
           IN /\ change = "removed" => old = "current"
              /\ leftController' = IF hand = "left" THEN new ELSE leftController
              /\ rightController' = IF hand = "right" THEN new ELSE rightController
              /\ untracked' = [untracked EXCEPT ![hand] = UntrackedAfter(old, @, change)]
        /\ controllerSendInterval' = IF change = "added" THEN controllerSendInterval ELSE "null"
        /\ lastOp' = Op("inputSourcesChange", "none", NoMsg)
        /\ xrCalls' = <<>>
        /\ lastFrame' = NoFrame
        /\ NoTransportEffect
        /\ UNCHANGED <<xrSession, xrReferenceSpace, usePassthrough, browser, arSupport, xrPending,
                       refPending, recVars, controllerData, status, now>>

\* onInputSourcesChange(event) for one input source of the active session
InputSourcesChange ==
    \E hand \in Hands, change \in SourceChanges :
        /\ xrSession # NoSession
        /\ LET old == IF hand = "left" THEN leftController ELSE rightController
               new == TrackedAfter(old, change)
           IN /\ change = "removed" => old = "current"
              /\ leftController' = IF hand = "left" THEN new ELSE leftController
              /\ rightController' = IF hand = "right" THEN new ELSE rightController
              /\ untracked' = [untracked EXCEPT ![hand] = UntrackedAfter(old, @, change)]
        /\ lastOp' = Op("inputSourcesChange", "none", NoMsg)
        /\ xrCalls' = <<>>
        /\ lastFrame' = NoFrame
        /\ NoTransportEffect
        /\ UNCHANGED <<xrVars, recVars, controllerData, status, now>>

\* frame.getPose(controller.gripSpace, referenceSpace) throws InvalidStateError
\* when a space does not belong to the session of the frame
PoseThrows == \/ xrReferenceSpace = "stale"
              \/ leftController = "stale"
              \/ rightController = "stale"

\* 1.0 in units of half of 0.0001
One == 20000

\* the raw numbers a device reports for a pose component
RawValues == (-MaxRaw)..MaxRaw

Abs(r) == IF r < 0 THEN -r ELSE r

\* rounding that always moves to the next four-decimal number above in
\* magnitude
QuantizeNextUp(r) ==
    LET n == (Abs(r) \div 2) + 1 IN IF r < 0 THEN -(2 * n) ELSE 2 * n

\* parseFloat(x.toFixed(4)): the four-decimal number nearest to x; of two
\* equally near ones toFixed takes the one larger in magnitude
Quantize(r) ==
    LET n == (Abs(r) + 1) \div 2 IN IF r < 0 THEN -(2 * n) ELSE 2 * n

\* buttons.primary_pressed / buttons.secondary_pressed: absent until a gamepad
\* with that button was sampled
NoFlag == [has |-> FALSE, pressed |-> FALSE]

\* the entry controllerData starts with for each hand; entries holds
\* button_0, button_1, ... and axes holds axis_0, axis_1, ...
InitialHand ==
    [position |-> <<0, 0, 0>>,
     rotation |-> <<0, 0, 0, One>>,
     buttons |-> [entries |-> <<>>, primary_pressed |-> NoFlag, secondary_pressed |-> NoFlag],
     axes |-> <<>>,
     debug |-> [triggerValue |-> 0, gripValue |-> 0,
                primaryButtonPressed |-> FALSE, secondaryButtonPressed |-> FALSE]]

\* the keys of old overwritten by those of new; keys only new or only old has
\* are kept
Merge(old, new) ==
    [i \in 1..(IF Len(new) > Len(old) THEN Len(new) ELSE Len(old)) |->
        IF i <= Len(new) THEN new[i] ELSE old[i]]

\* the object stored under button_<index>
StoredButton(button) ==
    [pressed |-> button.pressed, touched |-> button.touched, value |-> Quantize(button.value)]

\* the position and rotation stored for a hand whose sample has no pose:
\* cleared instead of kept
PoseCleared(h, pose) ==
    IF pose.has
    THEN [h EXCEPT !.position = [i \in 1..3 |-> Quantize(pose.position[i])],
                   !.rotation = [i \in 1..4 |-> Quantize(pose.orientation[i])]]
    ELSE [h EXCEPT !.position = <<>>, !.rotation = <<>>]

\* updateControllerData, the `if (pose)` block
PoseStored(h, pose) ==
    IF pose.has
    THEN [h EXCEPT !.position = [i \in 1..3 |-> Quantize(pose.position[i])],
                   !.rotation = [i \in 1..4 |-> Quantize(pose.orientation[i])]]
    ELSE h

\* the buttons loop with the shortcut keys taken from the wrong indices
ButtonsSwapped(h, buttons) ==
    LET n == Len(buttons) IN
    [h EXCEPT
        !.buttons = [entries |-> Merge(@.entries, [i \in 1..n |-> StoredButton(buttons[i])]),
                     primary_pressed |-> IF n >= 6
                                         THEN [has |-> TRUE, pressed |-> buttons[6].pressed]
                                         ELSE @.primary_pressed,
                     secondary_pressed |-> IF n >= 5
                                           THEN [has |-> TRUE, pressed |-> buttons[5].pressed]
                                           ELSE @.secondary_pressed],
        !.debug = [triggerValue |-> IF n >= 1 THEN buttons[1].value ELSE @.triggerValue,
                   gripValue |-> IF n >= 2 THEN buttons[2].value ELSE @.gripValue,
                   primaryButtonPressed |-> IF n >= 5 THEN buttons[5].pressed
                                            ELSE @.primaryButtonPressed,
                   secondaryButtonPressed |-> IF n >= 6 THEN buttons[6].pressed
                                              ELSE @.secondaryButtonPressed]]

\* updateControllerData, the gamepad.buttons.forEach loop; buttons[i] is the
\* button of index i - 1
ButtonsStored(h, buttons) ==
    LET n == Len(buttons) IN
    [h EXCEPT
        !.buttons = [entries |-> Merge(@.entries, [i \in 1..n |-> StoredButton(buttons[i])]),
                     primary_pressed |-> IF n >= 5
                                         THEN [has |-> TRUE, pressed |-> buttons[5].pressed]
                                         ELSE @.primary_pressed,
                     secondary_pressed |-> IF n >= 6
                                           THEN [has |-> TRUE, pressed |-> buttons[6].pressed]
                                           ELSE @.secondary_pressed],
        !.debug = [triggerValue |-> IF n >= 1 THEN buttons[1].value ELSE @.triggerValue,
                   gripValue |-> IF n >= 2 THEN buttons[2].value ELSE @.gripValue,
                   primaryButtonPressed |-> IF n >= 5 THEN buttons[5].pressed
                                            ELSE @.primaryButtonPressed,
                   secondaryButtonPressed |-> IF n >= 6 THEN buttons[6].pressed
                                              ELSE @.secondaryButtonPressed]]

\* updateControllerData, the gamepad.axes.forEach loop
AxesStored(h, axes) ==
    [h EXCEPT !.axes = Merge(@, [i \in 1..Len(axes) |-> Quantize(axes[i])])]

\* updateControllerData(hand, controller, frame, referenceSpace) with the frame
\* reporting sample s for the hand
updateControllerData(data, hand, s) ==
    LET posed == PoseStored(data[hand], s.pose) IN
    [data EXCEPT ![hand] = IF s.gamepad.has
                           THEN AxesStored(ButtonsStored(posed, s.gamepad.buttons), s.gamepad.axes)
                           ELSE posed]

\* the frame callback sending the data itself
FrameSendsData(socks, sk, data) == sendControllerData(socks, sk, data)

\* onXRFrame, its last statement: the sendControllerData call is commented out
FrameSends(socks, sk, data) == NoSend(socks)

\* the frame callback reaches the sampling of the controllers and none of its
\* getPose calls throws
FrameSamples ==
    /\ xrReferenceSpace # "null"
    /\ ~(PoseThrows /\ (leftController # "null" \/ rightController # "null"))

\* what the frame can report for a controller, out of the samples F
Reported(controller, F) == IF FrameSamples /\ controller # "null" THEN F ELSE {NoReport}

\* onXRFrame(time, frame): the animation loop calls it while presenting; the
\* device reports samples out of F
XRFrameOn(F) ==
    \E sl \in Reported(leftController, F), sr \in Reported(rightController, F) :
        /\ xrSession # NoSession
        /\ IF xrReferenceSpace = "null"
           THEN /\ exception' = FALSE
                /\ sent' = <<>>
                /\ UNCHANGED <<controllerData, sockets>>
           ELSE IF ~FrameSamples
           THEN /\ exception' = TRUE
                /\ sent' = <<>>
                /\ UNCHANGED <<controllerData, sockets>>
           ELSE LET dl == IF leftController # "null"
                          THEN updateControllerData(controllerData, "left", sl)
                          ELSE controllerData
                    dr == IF rightController # "null"
                          THEN updateControllerData(dl, "right", sr)
                          ELSE dl
                    r == FrameSends(sockets, socket, dr)
                IN /\ controllerData' = dr
                   /\ sockets' = r.sockets
                   /\ sent' = r.sent
                   /\ exception' = r.threw
        /\ lastFrame' = [left |-> sl, right |-> sr]
        /\ lastOp' = Op("xrFrame", "none", NoMsg)
        /\ created' = FALSE
        /\ ctorThrew' = FALSE
        /\ scheduled' = <<>>
        /\ xrCalls' = <<>>
        /\ UNCHANGED <<socket, reconnectAttempts, manuallyDisconnected, reconnectTimers,
                       failedAttempts, giveUpReports, xrVars, recVars, leftController, rightController,
                       untracked, status, now>>

\* ---- the samples the device reports ----
Pose(r) == [has |-> TRUE, position |-> <<r, 0, -r>>, orientation |-> <<0, r, 0, -r>>]
Poses == {NoPose} \cup {Pose(r) : r \in RawValues}

\* a button at rest, touched without being pressed, and fully pressed
Rest == [pressed |-> FALSE, touched |-> FALSE, value |-> 0]
Touched == [pressed |-> FALSE, touched |-> TRUE, value |-> 1]
Down == [pressed |-> TRUE, touched |-> TRUE, value |-> One]
ButtonStates == {Rest, Touched, Down}

\* gamepads without buttons, with buttons 0..4 and with buttons 0..5
ButtonLists ==
    {<<>>} \cup {<<Touched, Rest, Rest, Rest, a>> : a \in ButtonStates}
           \cup {<<Touched, Rest, Rest, Rest, a, b>> : a \in ButtonStates, b \in ButtonStates}
AxesLists == {<<>>, <<1, -1>>}
Gamepads == {NoGamepad} \cup {[has |-> TRUE, buttons |-> b, axes |-> a] :
                                b \in ButtonLists, a \in AxesLists}

\* every sample: any pose with any gamepad
Samples == [pose : Poses, gamepad : Gamepads]
\* the samples of a controller without gamepad that is tracked or not
PoseSamples == [pose : {NoPose, Pose(1)}, gamepad : {NoGamepad}]

XRFrame == XRFrameOn(Samples)
XRFramePose == XRFrameOn(PoseSamples)

\* the wall clock advances; no handler runs
Tick ==
    /\ now' = now + 1
    /\ lastOp' = Op("clock", "none", NoMsg)
    /\ xrCalls' = <<>>
    /\ lastFrame' = NoFrame
    /\ NoTransportEffect
    /\ UNCHANGED <<xrVars, recVars, ctlVars, status>>

(***************************************************************************)
(* The page after load: initWebXR has run and its check of 'immersive-vr'   *)
(* has enabled the VR button; no other handler has run                     *)
(***************************************************************************)
Init ==
    /\ socket = 0
    /\ reconnectAttempts = 0
    /\ manuallyDisconnected = FALSE
    /\ sockets = <<>>
    /\ reconnectTimers = 0
    /\ xrSession = NoSession
    /\ xrReferenceSpace = "null"
    /\ usePassthrough = TRUE
    /\ controllerSendInterval = "null"
    /\ recordingActive = FALSE
    /\ recordingCount = 0
    /\ recordingStartTime = 0
    /\ leftController = "null"
    /\ rightController = "null"
    /\ controllerData = [left |-> InitialHand, right |-> InitialHand]
    /\ untracked = [hand \in Hands |-> 0]
    /\ browser \in {"desktop", "quest", "questOculus"}
    /\ arSupport = "pending"
    /\ xrPending = "none"
    /\ refPending = [current |-> FALSE, stale |-> 0, failed |-> FALSE]
    /\ status = "ready"
    /\ now = 1
    /\ lastOp = Op("load", "none", NoMsg)
    /\ sent = <<>>
    /\ created = FALSE
    /\ ctorThrew = FALSE
    /\ scheduled = <<>>
    /\ xrCalls = <<>>
    /\ exception = FALSE
    /\ lastFrame = NoFrame
    /\ failedAttempts = 0
    /\ giveUpReports = 0

(***************************************************************************)
(* Specifications.  The actions above carry no bound; each specification   *)
(* conjoins a bound on the successor state to the actions it lets the      *)
(* environment take.                                                       *)
(***************************************************************************)
\* the objects of the browser that are alive at once
Bounded ==
    /\ Len(sockets) <= MaxLiveSockets
    /\ reconnectTimers <= MaxTimers
    /\ refPending.stale <= MaxStale

\* the clock stands still
ClockStopped == now = 1

\* `new WebSocket` never throws (the URL is a constant, well-formed wss URL)
CtorNeverThrows == ~ctorThrew

\* each hand has at most one input source connected
OneSourcePerHand == \A hand \in Hands : untracked[hand] = 0

\* the page runs on a browser without the Quest user agent
InitDesktop == Init /\ browser = "desktop"

(***************************************************************************)
(* SpecTransport: the reconnect machinery.  Every socket event, timer,     *)
(* disconnect, reset and session start and end; the server sends nothing,  *)
(* the device grants every session request and no reference space is       *)
(* acquired.                                                               *)
(***************************************************************************)
BoundT == Bounded /\ CtorNeverThrows /\ ClockStopped

NextTransport ==
    \/ VrButtonClick /\ BoundT'
    \/ SessionGranted /\ BoundT'
    \/ SessionEnded /\ BoundT'
    \/ RefSpaceFailed /\ BoundT'
    \/ ReconnectTimerFires /\ BoundT'
    \/ ConnectionTimeoutFires /\ BoundT'
    \/ SocketOpen /\ BoundT'
    \/ SocketClose /\ BoundT'
    \/ DisconnectWebSocket /\ BoundT'
    \/ ResetWebSocketState /\ BoundT'

SpecTransport == InitDesktop /\ [][NextTransport]_vars

(***************************************************************************)
(* SpecCtor: the reconnect machinery when `new WebSocket` may throw.       *)
(***************************************************************************)
BoundK == Bounded /\ ClockStopped

NextCtor ==
    \/ VrButtonClick /\ BoundK'
    \/ SessionGranted /\ BoundK'
    \/ SessionEnded /\ BoundK'
    \/ RefSpaceFailed /\ BoundK'
    \/ ReconnectTimerFires /\ BoundK'
    \/ ConnectionTimeoutFires /\ BoundK'
    \/ SocketOpen /\ BoundK'
    \/ SocketClose /\ BoundK'
    \/ DisconnectWebSocket /\ BoundK'
    \/ ResetWebSocketState /\ BoundK'

SpecCtor == InitDesktop /\ [][NextCtor]_vars

(***************************************************************************)
(* SpecChannel: the data path of one session.  Send ticks, frames, input   *)
(* sources, inbound messages of every kind, reference-space outcomes,      *)
(* socket events and reconnects.                                           *)
(***************************************************************************)
BoundC == Bounded /\ CtorNeverThrows /\ ClockStopped /\ OneSourcePerHand

NextChannel ==
    \/ VrButtonClick /\ BoundC'
    \/ SessionRejected /\ BoundC'
    \/ SessionGranted /\ BoundC'
    \/ InputSourcesChange /\ BoundC'
    \/ XRFramePose /\ BoundC'
    \/ RefSpaceAcquired /\ BoundC'
    \/ RefSpaceFailed /\ BoundC'
    \/ SendTick /\ BoundC'
    \/ ReconnectTimerFires /\ BoundC'
    \/ ConnectionTimeoutFires /\ BoundC'
    \/ SocketOpen /\ BoundC'
    \/ SocketClose /\ BoundC'
    \/ SocketMessage /\ BoundC'

SpecChannel == InitDesktop /\ [][NextChannel]_vars

(***************************************************************************)
(* SpecRecording: the recording-status display state against the clock.    *)
(***************************************************************************)
BoundR == Bounded /\ CtorNeverThrows /\ now <= MaxTime

NextRecording ==
    \/ VrButtonClick /\ BoundR'
    \/ SessionGranted /\ BoundR'
    \/ SessionEnded /\ BoundR'
    \/ ReconnectTimerFires /\ BoundR'
    \/ SocketOpen /\ BoundR'
    \/ SocketClose /\ BoundR'
    \/ SocketMessage /\ BoundR'
    \/ Tick /\ BoundR'

SpecRecording == InitDesktop /\ [][NextRecording]_vars

(***************************************************************************)
(* SpecSession: the session lifecycle on every browser kind, with the      *)
(* passthrough toggle and rejected requests; every socket opens and stays  *)
(* open until it is replaced.                                              *)
(***************************************************************************)
BoundS == Bounded /\ CtorNeverThrows /\ ClockStopped

NextSession ==
    \/ ArSupportReported /\ BoundS'
    \/ PassthroughToggle /\ BoundS'
    \/ VrButtonClick /\ BoundS'
    \/ SessionRejected /\ BoundS'
    \/ SessionGranted /\ BoundS'
    \/ SessionEnded /\ BoundS'
    \/ RefSpaceAcquired /\ BoundS'
    \/ RefSpaceFailed /\ BoundS'
    \/ SendTick /\ BoundS'
    \/ SocketOpen /\ BoundS'

SpecSession == Init /\ [][NextSession]_vars

(***************************************************************************)
(* SpecTracking: tracking over several sessions.  Sessions start and end,  *)
(* reference spaces are acquired or refused, controllers come and go and   *)
(* frames report poses; sockets close and reconnect.                       *)
(***************************************************************************)
BoundG == Bounded /\ CtorNeverThrows /\ ClockStopped /\ OneSourcePerHand

NextTracking ==
    \/ VrButtonClick /\ BoundG'
    \/ SessionGranted /\ BoundG'
    \/ SessionEnded /\ BoundG'
    \/ RefSpaceAcquired /\ BoundG'
    \/ RefSpaceFailed /\ BoundG'
    \/ InputSourcesChange /\ BoundG'
    \/ XRFramePose /\ BoundG'
    \/ SocketClose /\ BoundG'
    \/ ReconnectTimerFires /\ BoundG'

SpecTracking == InitDesktop /\ [][NextTracking]_vars

(***************************************************************************)
(* SpecSampler: the sampling of one controller.  A session starts, its     *)
(* reference space is acquired, the left controller comes and goes and     *)
(* every frame reports any sample for it.                                  *)
(***************************************************************************)
\* only the left controller is ever connected
LeftOnly == rightController = "null"

BoundM == Bounded /\ CtorNeverThrows /\ ClockStopped /\ LeftOnly /\ OneSourcePerHand

NextSampler ==
    \/ VrButtonClick /\ BoundM'
    \/ SessionGranted /\ BoundM'
    \/ RefSpaceAcquired /\ BoundM'
    \/ InputSourcesChange /\ BoundM'
    \/ XRFrame /\ BoundM'

SpecSampler == InitDesktop /\ [][NextSampler]_vars

(***************************************************************************)
(* SpecDevices: the input sources of one session, where a hand may have    *)
(* more than one source connected, with the socket events of the session.  *)
(***************************************************************************)
BoundD ==
    /\ Bounded
    /\ CtorNeverThrows
    /\ ClockStopped
    /\ \A hand \in Hands : untracked[hand] <= MaxUntracked

NextDevices ==
    \/ VrButtonClick /\ BoundD'
    \/ SessionGranted /\ BoundD'
    \/ RefSpaceAcquired /\ BoundD'
    \/ InputSourcesChange /\ BoundD'
    \/ SocketOpen /\ BoundD'
    \/ SocketClose /\ BoundD'
    \/ ReconnectTimerFires /\ BoundD'

SpecDevices == InitDesktop /\ [][NextDevices]_vars

(***************************************************************************)
(* SpecStable: sessions start and end against a server that accepts every  *)
(* connection before its timeout and drops none: a socket closes only      *)
(* after close() was called on it.  Socket events and timers that are due  *)
(* are eventually delivered; the user is free to stop starting sessions.   *)
(***************************************************************************)
BoundE == Bounded /\ CtorNeverThrows /\ ClockStopped

NextStable ==
    \/ VrButtonClick /\ BoundE'
    \/ SessionGranted /\ BoundE'
    \/ SessionEnded /\ BoundE'
    \/ RefSpaceFailed /\ BoundE'
    \/ ReconnectTimerFires /\ BoundE'
    \/ SocketOpen /\ BoundE'
    \/ LocalClose /\ BoundE'

SpecStable ==
    /\ InitDesktop
    /\ [][NextStable]_vars
    /\ WF_vars(ReconnectTimerFires /\ BoundE')
    /\ WF_vars(SocketOpen /\ BoundE')
    /\ WF_vars(LocalClose /\ BoundE')

(***************************************************************************)
(* Properties                                                              *)
(***************************************************************************)
\* the channel is Connected: the current socket is open
Connected == socket # 0 /\ sockets[socket].readyState = "OPEN"

\* number of sockets with a connection timeout armed; every newly constructed
\* socket adds one
ArmedTimeouts(socks) == Cardinality({i \in 1..Len(socks) : socks[i].timeout})

C2_ManualDisconnectStopsReconnects ==
    [][(manuallyDisconnected /\ manuallyDisconnected')
         => /\ scheduled' = <<>>
            /\ reconnectTimers' <= reconnectTimers
            /\ ~created'
            /\ ArmedTimeouts(sockets') <= ArmedTimeouts(sockets)
            /\ reconnectAttempts' = reconnectAttempts
            /\ (lastOp'.name \in {"reconnectTimer", "sessionStarted"}
                  => (sockets' = sockets /\ socket' = socket))]_vars

\* a reconnect timer that was pending at disconnect has fired afterwards,
\* with the attempt counter still short of the ceiling
C2_Witness ==
    /\ manuallyDisconnected
    /\ lastOp.name = "reconnectTimer"
    /\ reconnectAttempts \in 1..(MAX_RECONNECT_ATTEMPTS - 1)
    /\ ~created

\* C3: a tick of the send interval while the channel is not Connected writes
\* nothing to any socket, leaves every socket as it was (nothing is queued),
\* raises no exception and leaves the interval armed; a tick while Connected
\* writes exactly one telemetry message to the current socket.
C3_TickWhileNotConnectedDrops ==
    [][SendTick
         => /\ controllerSendInterval' = controllerSendInterval
            /\ ~exception'
            /\ IF Connected
               THEN /\ Len(sent') = 1
                    /\ sent'[1].sock = socket
                    /\ sent'[1].msg.type = "telemetry"
                    /\ sent'[1].msg.hands = controllerData
               ELSE /\ sent' = <<>>
                    /\ sockets' = sockets]_vars

\* a tick has run while the current socket was still connecting
C3_Witness ==
    /\ lastOp.name = "sendTick"
    /\ socket # 0
    /\ sockets[socket].readyState = "CONNECTING"
    /\ sent = <<>>
    /\ ~exception
    /\ controllerSendInterval = "current"

\* C4: every close event of a socket while manuallyDisconnected is FALSE
\* increments the attempt counter by one and schedules exactly one reconnect,
\* with delay 3000 ms times the counter after the increment; a constructor
\* failure in setupWebSocket does the same.
C4_CloseSchedulesLinearBackoff ==
    [][/\ (SocketClose /\ ~manuallyDisconnected)
            => /\ reconnectAttempts' = reconnectAttempts + 1
               /\ reconnectTimers' = reconnectTimers + 1
               /\ scheduled' = <<3000 * reconnectAttempts'>>
       /\ (ctorThrew' /\ ~manuallyDisconnected)
            => /\ reconnectAttempts' = reconnectAttempts + 1
               /\ scheduled' = <<3000 * reconnectAttempts'>>]_vars

\* the fifth failure in a row has scheduled a reconnect after 15 s
C4_Witness ==
    /\ lastOp.name = "onclose"
    /\ failedAttempts = 5
    /\ reconnectAttempts = 5
    /\ scheduled = <<15000>>
    /\ reconnectTimers = 1

\* C5: every open event resets the attempt counter to 0 and sends one ping
\* on the socket that opened; the first message written to any socket is
\* that ping, so an open socket has carried the ping before anything else.
C5_OpenResetsCounterAndPingsFirst ==
    [][/\ SocketOpen
            => /\ reconnectAttempts' = 0
               /\ sockets[socket].readyState = "CONNECTING"
               /\ sockets'[socket].readyState = "OPEN"
               /\ Len(sent') = 1
               /\ sent'[1].sock = socket
               /\ sent'[1].msg.type = "ping"
               /\ ~exception'
       /\ \A i \in 1..Len(sockets') :
            /\ sockets'[i].first \in {"none", "ping"}
            /\ sockets'[i].readyState = "OPEN" => sockets'[i].first = "ping"]_vars

\* a socket has opened: the counter is 0 and the ping is the one message
\* written, on that socket
C5_Witness ==
    /\ lastOp.name = "onopen"
    /\ reconnectAttempts = 0
    /\ Len(sent) = 1
    /\ sent[1].msg.type = "ping"
    /\ sockets[socket].first = "ping"

\* C6: when the connection timeout of an attempt fires, that attempt has
\* neither opened nor closed and its socket is closing afterwards; the close
\* event of a socket that is closing without having opened increments the
\* attempt counter and schedules one reconnect unless manuallyDisconnected;
\* a socket that has opened or closed has no timeout armed any more.
C6_TimeoutIsTreatedAsFailure ==
    [][/\ ConnectionTimeoutFires
            => \A s \in 1..Len(sockets) :
                  (sockets[s].timeout /\ ~sockets'[s].timeout)
                     => /\ ~sockets[s].opened
                        /\ sockets[s].readyState \in {"CONNECTING", "CLOSING"}
                        /\ sockets'[s].readyState = "CLOSING"
       /\ (/\ SocketClose
           /\ \A s \in 1..Len(sockets) :
                 sockets[s].readyState = "CLOSING" /\ ~sockets[s].opened)
            => IF manuallyDisconnected
               THEN /\ reconnectAttempts' = reconnectAttempts
                    /\ scheduled' = <<>>
               ELSE /\ reconnectAttempts' = reconnectAttempts + 1
                    /\ scheduled' = <<3000 * reconnectAttempts'>>
       /\ \A s \in 1..Len(sockets') :
            sockets'[s].timeout
               => /\ ~sockets'[s].opened
                  /\ sockets'[s].readyState \in {"CONNECTING", "CLOSING"}]_vars

\* the timeout of the current attempt has fired while it was connecting and
\* has closed its socket
C6_Witness ==
    /\ lastOp.name = "connectionTimeout"
    /\ lastOp.sock = "current"
    /\ Len(sockets) = 1
    /\ sockets[socket].readyState = "CLOSING"
    /\ ~sockets[socket].opened
    /\ ~sockets[socket].timeout
    /\ ~manuallyDisconnected

\* C7: a ping received on the open current socket is answered with exactly
\* one pong carrying the current time and changes nothing else; a pong is
\* answered with nothing and changes no state; a recording_status is
\* answered with nothing and its recording_active and recording_count reach
\* the recording display state.
C7_InboundDispatchByType ==
    [][(SocketMessage /\ lastOp'.msg.kind = "json")
         => CASE lastOp'.msg.type = "ping"
                   -> /\ Connected
                      /\ Len(sent') = 1
                      /\ sent'[1].sock = socket
                      /\ sent'[1].msg.type = "pong"
                      /\ sent'[1].msg.timestamp = now
                      /\ UNCHANGED <<recVars, ctlVars>>
              [] lastOp'.msg.type = "pong"
                   -> /\ sent' = <<>>
                      /\ UNCHANGED <<wsVars, xrVars, recVars, ctlVars, status>>
              [] lastOp'.msg.type = "recording_status"
                   -> /\ sent' = <<>>
                      /\ lastOp'.msg.recording_active = "true"
                           => /\ recordingActive'
                              /\ recordingCount' = IF lastOp'.msg.recording_count = -1
                                                   THEN 0
                                                   ELSE lastOp'.msg.recording_count
                      /\ lastOp'.msg.recording_active = "false"
                           => ~recordingActive'
              [] OTHER -> TRUE]_vars

\* a ping has been answered with one pong
C7_Witness ==
    /\ lastOp.name = "onmessage"
    /\ lastOp.msg.type = "ping"
    /\ Len(sent) = 1
    /\ sent[1].msg.type = "pong"
    /\ sent[1].sock = socket

\* C8: a message that cannot be decoded, or whose type is not recognized,
\* leaves the transport state (sockets, attempt counter, timers), the
\* recording state and the controller data unchanged, sends nothing, raises
\* no exception out of the handler, and the socket stays open to dispatch
\* later messages.
C8_UnknownOrMalformedIsIgnored ==
    [][(SocketMessage /\ (lastOp'.msg.kind = "malformed" \/ lastOp'.msg.type = "unknown"))
         => /\ sent' = <<>>
            /\ ~exception'
            /\ UNCHANGED <<wsVars, recVars, ctlVars, xrVars, status>>
            /\ \E s \in 1..Len(sockets') : sockets'[s].readyState = "OPEN"]_vars

\* a malformed payload has been handled while a recording was shown and a
\* controller sample was stored
C8_Witness ==
    /\ lastOp.name = "onmessage"
    /\ lastOp.msg.kind = "malformed"
    /\ recordingActive
    /\ controllerData.left # InitialHand
    /\ Connected
    /\ ~exception

\* C9: a recording_status with recording_active true received while the
\* display state is inactive sets recordingStartTime to the current time; one
\* received while it is already active leaves recordingStartTime unchanged;
\* and recordingStartTime takes a new time on no other step.
C9_StartTimeSetOnRisingEdgeOnly ==
    [][/\ (/\ SocketMessage
           /\ lastOp'.msg.type = "recording_status"
           /\ lastOp'.msg.recording_active = "true")
            => IF recordingActive
               THEN recordingStartTime' = recordingStartTime
               ELSE recordingStartTime' = now
       /\ (recordingStartTime' # recordingStartTime /\ recordingStartTime' # 0)
            => (~recordingActive /\ recordingActive' /\ recordingStartTime' = now)]_vars

\* a second active update has arrived after the clock moved on, and the start
\* time is still the earlier one
C9_Witness ==
    /\ lastOp.name = "onmessage"
    /\ lastOp.msg.type = "recording_status"
    /\ lastOp.msg.recording_active = "true"
    /\ recordingActive
    /\ recordingStartTime # 0
    /\ recordingStartTime < now

\* C10: a click on the VR button while a session request is pending or a
\* session is active is a no-op: it issues no requestSession call and
\* changes neither the pending request nor the status text.
C10_ClickWhileBusyIsNoOp ==
    [][(VrButtonClick /\ (xrPending # "none" \/ xrSession # NoSession))
         => (xrCalls' = <<>> /\ UNCHANGED <<xrPending, status>>)]_vars

\* the requestSession calls that ask for an augmented-reality session
PassthroughCalls == {"oculus-immersive-ar", "immersive-ar"}

\* C11: with usePassthrough set, a click first issues a passthrough request
\* and issues the plain request only after every passthrough request of the
\* chain was rejected; a rejected passthrough request is followed by the next
\* request of the chain (standard passthrough after the Oculus one, plain
\* after the standard one) with the status text untouched; the error status
\* appears only in a step in which the plain request was rejected; a granted
\* request yields a session of the mode that was requested.
C11_PassthroughFallsBackToPlain ==
    [][/\ (VrButtonClick /\ usePassthrough)
            => /\ xrCalls'[1] \in PassthroughCalls
               /\ \A i \in 1..Len(xrCalls') :
                     xrCalls'[i] = "immersive-vr"
                        => /\ i = Len(xrCalls')
                           /\ i > 1
                           /\ XRBusy
               /\ ~XRBusy => (status' = status /\ xrPending' \in {"quest", "standard"})
       /\ (SessionRejected /\ xrPending = "quest")
            => (xrCalls' = <<"immersive-ar">> /\ xrPending' = "standard" /\ status' = status)
       /\ (SessionRejected /\ xrPending = "standard")
            => (xrCalls' = <<"immersive-vr">> /\ xrPending' = "vr" /\ status' = status)
       /\ (status' = "Error starting VR" /\ status # "Error starting VR")
            => \/ SessionRejected /\ xrPending = "vr"
               \/ VrButtonClick /\ XRBusy /\ xrCalls'[Len(xrCalls')] = "immersive-vr"
       /\ SessionGranted
            => xrSession' = [mode |-> IF xrPending = "vr" THEN "immersive-vr"
                                     ELSE "immersive-ar"]]_vars

\* the standard passthrough request was rejected and the plain request is
\* now pending, with no error shown
C11_Witness ==
    /\ lastOp.name = "sessionRejected"
    /\ xrCalls = <<"immersive-vr">>
    /\ xrPending = "vr"
    /\ status = "ready"
    /\ xrSession = NoSession

\* C12: with usePassthrough off, a click issues the plain immersive request
\* and no passthrough request; the rejection of a pending plain request
\* issues no further request and shows the error.
C12_NoPassthroughWhenPreferenceOff ==
    [][/\ (VrButtonClick /\ ~usePassthrough)
            => /\ xrCalls' = <<"immersive-vr">>
               /\ ~XRBusy => (xrPending' = "vr" /\ status' = status)
       /\ (SessionRejected /\ xrPending = "vr")
            => /\ xrCalls' = <<>>
               /\ xrPending' = "none"
               /\ status' = "Error starting VR"
               /\ xrSession' = NoSession]_vars

\* a click with the preference off has the plain request pending
C12_Witness ==
    /\ lastOp.name = "click"
    /\ ~usePassthrough
    /\ xrCalls = <<"immersive-vr">>
    /\ xrPending = "vr"

\* C13: whenever no session is active, the send interval is not armed and
\* no step sends a telemetry message.
C13_NoSendTimerWithoutSession ==
    /\ xrSession = NoSession => controllerSendInterval = "null"
    /\ xrSession = NoSession
          => \A i \in 1..Len(sent) : sent[i].msg.type # "telemetry"

\* the controller stored for a hand
ControllerOf(hand) == IF hand = "left" THEN leftController ELSE rightController

\* C14: every telemetry message handed to the socket has the key of a hand
\* only if the input source of that hand is connected to the active session.
C14_HandKeyOnlyIfConnected ==
    \A i \in 1..Len(sent) :
        sent[i].msg.type = "telemetry"
            => \A hand \in DOMAIN sent[i].msg.hands : ControllerOf(hand) = "current"

\* C15: a controller being added or removed leaves the session, its mode, the
\* send timer and the connection as they are.
C15_DeviceChangeKeepsSession ==
    [][InputSourcesChange
         => /\ xrSession' = xrSession
            /\ xrSession' # NoSession
            /\ controllerSendInterval' = controllerSendInterval
            /\ UNCHANGED wsVars]_vars

\* a controller that was sampled is gone again, the session is active, its
\* timer armed and the channel Connected
C15_Witness ==
    /\ lastOp.name = "inputSourcesChange"
    /\ leftController = "null"
    /\ rightController = "null"
    /\ controllerData.left # InitialHand
    /\ xrSession # NoSession
    /\ controllerSendInterval = "current"
    /\ Connected

\* the snapshots of the hands whose controller is connected and for which the
\* last frame reported no pose
Unposed == {hand \in Hands : ControllerOf(hand) # "null" /\ ~lastFrame[hand].pose.has}

\* C16: a frame that reports no pose for a connected hand leaves the position
\* and rotation stored for that hand as they were, and in every state the
\* position has three numbers and the rotation four.
C16_NoPoseRetainsPositionAndRotation ==
    [][/\ lastOp'.name = "xrFrame"
            => \A hand \in Unposed' :
                  /\ controllerData'[hand].position = controllerData[hand].position
                  /\ controllerData'[hand].rotation = controllerData[hand].rotation
       /\ \A hand \in Hands :
             /\ Len(controllerData'[hand].position) = 3
             /\ Len(controllerData'[hand].rotation) = 4]_vars

\* the left controller had a pose stored and the last frame sampled it without
\* a pose
C16_Witness ==
    /\ lastOp.name = "xrFrame"
    /\ ~exception
    /\ xrReferenceSpace = "current"
    /\ leftController = "current"
    /\ ~lastFrame.left.pose.has
    /\ lastFrame.left.gamepad.has
    /\ controllerData.left.position = <<2, 0, -2>>
    /\ controllerData.left.rotation = <<0, 2, 0, -2>>

\* the elements of a sequence
Range(seq) == {seq[i] : i \in 1..Len(seq)}

\* the raw numbers a sample carries into a toFixed(4) call
RawNumbers(s) ==
    Range(s.pose.position) \cup Range(s.pose.orientation) \cup Range(s.gamepad.axes)
        \cup {s.gamepad.buttons[i].value : i \in 1..Len(s.gamepad.buttons)}

\* the numbers of a snapshot that were stored through toFixed(4)
RoundedNumbers(h) ==
    Range(h.position) \cup Range(h.rotation) \cup Range(h.axes)
        \cup {h.buttons.entries[i].value : i \in 1..Len(h.buttons.entries)}

\* C17: rounding a rounded number again gives the same number, for every raw
\* number a frame reports and for every rounded number a snapshot holds.
C17_QuantizeIsIdempotent ==
    \A hand \in Hands :
        /\ \A r \in RawNumbers(lastFrame[hand]) : Quantize(Quantize(r)) = Quantize(r)
        /\ \A v \in RoundedNumbers(controllerData[hand]) : Quantize(v) = v

\* a frame reported numbers halfway between two four-decimal numbers and the
\* snapshot holds them rounded away from zero
C17_Witness ==
    /\ lastOp.name = "xrFrame"
    /\ lastFrame.left.pose.has
    /\ lastFrame.left.pose.position = <<1, 0, -1>>
    /\ controllerData.left.position = <<2, 0, -2>>
    /\ lastFrame.left.gamepad.axes = <<1, -1>>
    /\ controllerData.left.axes = <<2, -2>>
    /\ Len(lastFrame.left.gamepad.buttons) > 0
    /\ lastFrame.left.gamepad.buttons[1].value = 1
    /\ controllerData.left.buttons.entries[1].value = 2

\* the entry and the shortcut flag stored for the button at position i of the
\* reported buttons are the ones reported (the value rounded)
Mirrors(h, buttons, i, flag) ==
    Len(buttons) >= i
        => /\ h.buttons.entries[i] = [pressed |-> buttons[i].pressed,
                                      touched |-> buttons[i].touched,
                                      value |-> Quantize(buttons[i].value)]
           /\ flag = [has |-> TRUE, pressed |-> buttons[i].pressed]

\* C18: after a frame that reported the button of index 4 (5) for a hand, the
\* snapshot holds button_4 (button_5) as reported and primary_pressed
\* (secondary_pressed) equal to its pressed flag; whenever a shortcut flag
\* exists it equals the pressed flag of its button.
C18_ShortcutFlagsMirrorButtons ==
    \A hand \in Hands :
        LET h == controllerData[hand]
            buttons == lastFrame[hand].gamepad.buttons
        IN /\ lastOp.name = "xrFrame"
                => /\ Mirrors(h, buttons, 5, h.buttons.primary_pressed)
                   /\ Mirrors(h, buttons, 6, h.buttons.secondary_pressed)
           /\ (h.buttons.primary_pressed.has /\ Len(h.buttons.entries) >= 5)
                => h.buttons.primary_pressed.pressed = h.buttons.entries[5].pressed
           /\ (h.buttons.secondary_pressed.has /\ Len(h.buttons.entries) >= 6)
                => h.buttons.secondary_pressed.pressed = h.buttons.entries[6].pressed

\* a frame reported button 4 pressed with value 1.0 and button 5 at rest
C18_Witness ==
    /\ lastOp.name = "xrFrame"
    /\ Len(lastFrame.left.gamepad.buttons) = 6
    /\ lastFrame.left.gamepad.buttons[5] = Down
    /\ lastFrame.left.gamepad.buttons[6] = Rest
    /\ controllerData.left.buttons.entries[5] = [pressed |-> TRUE, touched |-> TRUE, value |-> One]
    /\ controllerData.left.buttons.primary_pressed = [has |-> TRUE, pressed |-> TRUE]
    /\ controllerData.left.buttons.secondary_pressed = [has |-> TRUE, pressed |-> FALSE]

\* the telemetry messages among msgs
Telemetry(msgs) == {i \in 1..Len(msgs) : msgs[i].msg.type = "telemetry"}

\* C19: telemetry is sent by ticks of the send timer only, one message per
\* tick while the channel is Connected, and a frame callback sends nothing.
C19_OnlyTicksSendTelemetry ==
    [][/\ Telemetry(sent') # {} => lastOp'.name = "sendTick"
       /\ lastOp'.name = "xrFrame" => (sent' = <<>> /\ sockets' = sockets)
       /\ (SendTick /\ Connected) => (Len(sent') = 1 /\ Telemetry(sent') = {1})]_vars

\* a frame sampled a pose while the channel was Connected and the timer armed
C19_Witness ==
    /\ lastOp.name = "xrFrame"
    /\ lastFrame.left.pose.has
    /\ Connected
    /\ controllerSendInterval = "current"
    /\ sent = <<>>

\* a step that runs an error path: a socket closes (close, error or timeout),
\* the attempt ceiling stops a reconnect, an inbound payload is malformed, a
\* session request is rejected (later, or at once because a request or
\* session exists) or a reference space is refused
ErrorStep ==
    \/ lastOp'.name \in {"onclose", "connectionTimeout", "sessionRejected", "refSpaceFailed"}
    \/ lastOp'.name = "reconnectTimer" /\ CeilingReached(reconnectAttempts)
    \/ lastOp'.name = "onmessage" /\ lastOp'.msg.kind = "malformed"
    \/ lastOp'.name = "click" /\ XRBusy

\* C20: every error path leaves the snapshot of each hand and the recording
\* display state (active, count, start time) as they were.
C20_ErrorPathsKeepLastData ==
    [][ErrorStep => UNCHANGED <<controllerData, recVars>>]_vars

\* a socket closed while a recording was shown and a sample was stored
C20_Witness ==
    /\ lastOp.name = "onclose"
    /\ lastOp.sock = "current"
    /\ recordingActive
    /\ recordingCount = MaxCount
    /\ recordingStartTime # 0
    /\ controllerData.left # InitialHand
    /\ controllerData.right # InitialHand

\* the text setupWebSocket shows when it gives up at the attempt ceiling
GaveUpText == "WebSocket connection failed - reload page to try again"

\* C21: resetWebSocketState clears manuallyDisconnected and the attempt
\* counter and changes nothing else, creating no socket and scheduling no
\* timer; a call of setupWebSocket right after it (by a pending timer or by a
\* session start) creates a socket with the counter still at 0.
C21_ResetClearsAndNextSetupConnects ==
    [][/\ ResetWebSocketState
            => /\ ~manuallyDisconnected'
               /\ reconnectAttempts' = 0
               /\ ~created'
               /\ scheduled' = <<>>
               /\ UNCHANGED <<socket, sockets, reconnectTimers, xrVars, recVars, ctlVars, status>>
       /\ (lastOp.name = "reset" /\ lastOp'.name \in {"reconnectTimer", "sessionStarted"})
            => /\ created'
               /\ sockets'[socket'].readyState = "CONNECTING"
               /\ reconnectAttempts' = 0]_vars

\* reset has run after setupWebSocket gave up at the ceiling
C21_Witness ==
    /\ lastOp.name = "reset"
    /\ status = GaveUpText
    /\ reconnectAttempts = 0
    /\ ~manuallyDisconnected
    /\ reconnectTimers = 0

\* C22: after an inbound recording_status message that carries
\* recording_active = a and recording_count = c has been handled, the local
\* recordingActive equals a and the local recordingCount equals c, for a true
\* and a false alike.
C22_StatusMirrorsConsumer ==
    [][(/\ lastOp'.name = "onmessage"
        /\ lastOp'.msg.type = "recording_status"
        /\ lastOp'.msg.recording_active \in {"true", "false"}
        /\ lastOp'.msg.recording_count # -1)
         => /\ recordingActive' = (lastOp'.msg.recording_active = "true")
            /\ recordingCount' = lastOp'.msg.recording_count]_vars

\* C23: a passthrough (immersive-ar) session request is issued only if the
\* passthrough preference is set and the capability check has reported
\* immersive-ar as supported.
C23_PassthroughOnlyIfCapable ==
    [][(\E i \in 1..Len(xrCalls') : xrCalls'[i] \in PassthroughCalls)
         => (usePassthrough /\ arSupport = "supported")]_vars

\* C24: a frame that reports no pose for a connected hand leaves the whole
\* snapshot of that hand (position, rotation, buttons, axes and debug) as it
\* was after the frame before.
C24_NoPoseRetainsWholeSnapshot ==
    [][lastOp'.name = "xrFrame"
         => \A hand \in Unposed' : controllerData'[hand] = controllerData[hand]]_vars

\* C25: at most one timer of the transport is pending: connection timeouts
\* and reconnect timers together never number more than one.
C25_AtMostOneTransportTimer == ArmedTimeouts(sockets) + reconnectTimers <= 1

\* C26: right after disconnectWebSocket has returned no reconnect timer and
\* no connection timeout is pending.
C26_DisconnectClearsTimers ==
    lastOp.name = "disconnect" => (reconnectTimers = 0 /\ ArmedTimeouts(sockets) = 0)

\* C27: from the moment the attempt ceiling is reached until the attempt
\* counter is set to 0 again, setupWebSocket shows the give-up text once in
\* total, however often it is called.
C27_GiveUpReportedOnce == giveUpReports <= 1

\* the active session is one whose reference-space request was rejected
TrackingLess == xrSession # NoSession /\ refPending.failed

\* C28: a session whose reference-space request was rejected stays active
\* until it ends, its request arms no send timer, and a frame callback during
\* it updates no snapshot and throws nothing.
C28_FailedReferenceSpaceDegradesQuietly ==
    [][TrackingLess
         => /\ TrackingLess' \/ lastOp'.name = "sessionEnded"
            /\ controllerSendInterval' # "current"
            /\ lastOp'.name = "xrFrame" => (controllerData' = controllerData /\ ~exception')]_vars

\* C29: the local recording status (active, count, start time) changes only
\* in the handler of an inbound recording_status message; every other step
\* leaves all three fields as they were.
C29_RecordingStatusOnlyOnMessage ==
    [][\/ UNCHANGED recVars
       \/ lastOp'.name = "onmessage" /\ lastOp'.msg.type = "recording_status"]_vars

\* C30: after a frame whose sample for a hand reported the buttons of index 0
\* and 1, debug.triggerValue equals buttons.button_0.value and debug.gripValue
\* equals buttons.button_1.value, each a value rounded to 4 decimals.
C30_DebugDuplicatesButtonValues ==
    \A hand \in Hands :
        LET h == controllerData[hand] IN
        (/\ lastOp.name = "xrFrame"
         /\ xrReferenceSpace # "null"
         /\ Len(lastFrame[hand].gamepad.buttons) >= 2)
            => /\ h.debug.triggerValue = h.buttons.entries[1].value
               /\ h.debug.gripValue = h.buttons.entries[2].value
               /\ Quantize(h.debug.triggerValue) = h.debug.triggerValue
               /\ Quantize(h.debug.gripValue) = h.debug.gripValue

\* C31: after a frame that sampled the gamepad of a hand, the snapshot of that hand holds
\* button_<i> and axis_<i> for exactly the indices the gamepad reported in
\* that frame, and primary_pressed (secondary_pressed) only if index 4 (5) was
\* reported.
C31_KeysAreThoseOfTheFrame ==
    \A hand \in Hands :
        LET h == controllerData[hand]
            gamepad == lastFrame[hand].gamepad
        IN (/\ lastOp.name = "xrFrame"
            /\ xrReferenceSpace # "null"
            /\ ControllerOf(hand) # "null"
            /\ gamepad.has)
              => /\ Len(h.buttons.entries) = Len(gamepad.buttons)
                 /\ Len(h.axes) = Len(gamepad.axes)
                 /\ h.buttons.primary_pressed.has <=> Len(gamepad.buttons) >= 5
                 /\ h.buttons.secondary_pressed.has <=> Len(gamepad.buttons) >= 6

\* C32: in every state recordingStartTime is non-null exactly when
\* recordingActive is true, whatever recording_status messages, session
\* starts and session ends came before.
C32_StartTimeIffActive == (recordingStartTime # 0) <=> recordingActive

\* a recording reported active is still active, with its earlier start time,
\* after the session has ended
C32_Witness ==
    /\ lastOp.name = "sessionEnded"
    /\ xrSession = NoSession
    /\ recordingActive
    /\ recordingStartTime # 0
    /\ recordingStartTime < now

\* C33: in every state reconnectAttempts lies between 0 and
\* MAX_RECONNECT_ATTEMPTS.
C33_AttemptsWithinCeiling == reconnectAttempts \in 0..MAX_RECONNECT_ATTEMPTS

\* the sockets that are connecting or open
Connections == {i \in 1..Len(sockets) : sockets[i].readyState \in {"CONNECTING", "OPEN"}}

\* C34: in every state at most one socket is connecting or open, and it is
\* the most recently created one; a socket just created is connecting, and
\* every message sent in a step went to the most recently created socket.
C34_SingleConnection ==
    /\ Cardinality(Connections) <= 1
    /\ Connections \subseteq {socket}
    /\ created => Connections = {socket}
    /\ \A i \in 1..Len(sent) : sent[i].sock = socket

\* a second setupWebSocket call has replaced a socket that was open: the old
\* one is closing, the new one is the only connection
C34_Witness ==
    /\ created
    /\ Len(sockets) = 2
    /\ socket = 2
    /\ sockets[1].opened
    /\ sockets[1].readyState = "CLOSING"
    /\ sockets[2].readyState = "CONNECTING"

\* C35: against a server that accepts every connection and drops none, once
\* sessions have been started and no further session starts, the channel is
\* eventually Connected and stays Connected for ever.
C35_EventuallyConnectedForEver ==
    (/\ <>(lastOp.name = "sessionStarted")
     /\ <>[][lastOp'.name # "sessionStarted"]_vars)
        => <>[]Connected

\* C36: onSessionEnded changes neither the socket, the sockets' states and
\* connection timeouts, the attempt counter, the manual flag nor the pending
\* backoff timers, and it sends nothing; a backoff timer that fires while no
\* session is active still makes its connection attempt.
C36_SessionEndKeepsTransport ==
    [][/\ lastOp'.name = "sessionEnded"
            => /\ UNCHANGED <<socket, sockets, reconnectAttempts, manuallyDisconnected,
                              reconnectTimers>>
               /\ sent' = <<>>
               /\ ~created'
               /\ scheduled' = <<>>
       /\ (/\ lastOp'.name = "reconnectTimer"
           /\ xrSession = NoSession
           /\ ~manuallyDisconnected
           /\ ~CeilingReached(reconnectAttempts))
            => created']_vars

\* a session has ended while the connection was open and a backoff timer was
\* pending: the connection is still open and the timer still pending
C36_Witness ==
    /\ lastOp.name = "sessionEnded"
    /\ Connected
    /\ reconnectTimers = 1
    /\ reconnectAttempts = 1
    /\ ~manuallyDisconnected

\* C38: a connection timeout armed for a socket that has since been replaced
\* closes no socket created after it: when it fires, the current socket is
\* in the state it was in.
C38_TimeoutClosesOwnSocketOnly ==
    [][(lastOp'.name = "connectionTimeout" /\ lastOp'.sock = "stale")
         => sockets'[socket'].readyState = sockets[socket].readyState]_vars

\* the input sources of the hand that are connected to the active session
SourcesOf(hand) == untracked[hand] + (IF ControllerOf(hand) = "current" THEN 1 ELSE 0)

\* C37: after an input-source change event, the controller variable of each
\* hand is non-null exactly when at least one input source of that hand is
\* connected, and it then refers to a connected source.
C37_TrackedIffConnected ==
    lastOp.name = "inputSourcesChange"
        => \A hand \in Hands :
              /\ ControllerOf(hand) # "null" <=> SourcesOf(hand) > 0
              /\ ControllerOf(hand) # "null" => ControllerOf(hand) = "current"

====
